---- MODULE Spec2Model ----
(***************************************************************************)
(* Live-Polling backend (Express + Socket.IO): the poll engine, the roster *)
(* with name-collision handling and the per-session chat rooms of          *)
(* src/unnamed/part_000, one action per socket event handler, each handler *)
(* run to completion (Node's single-threaded event loop).                  *)
(*                                                                         *)
(* Strings are sequences of one-character strings, so that trim() and the  *)
(* "name (k)" suffixing are computed, not assumed.                         *)
(***************************************************************************)
EXTENDS Integers, Sequences, FiniteSets, TLC

(* ------------------------------- bounds -------------------------------- *)
\* sockets that ever connect
MaxConns == 2
\* polls that are ever started
MaxPolls == 2
\* answers accepted for one poll
MaxAnswers == 2
\* clock ticks the clock advances
MaxTicks == 1
\* messages the chat sessions may hold, all sessions together
MaxMessages == 2

(* -------------------------- program constants -------------------------- *)
\* pollData.duration || 60
DefaultDuration == 60
\* currentPoll.duration * 1000
MsPerSec == 1000

\* granularity of the model's clock: the default duration, in ms
TickMs == DefaultDuration * MsPerSec
MaxNow == MaxTicks * TickMs

\* the sockets of the students, and the socket of the teacher
Conns == 1..MaxConns
Teacher == MaxConns + 1
Sockets == Conns \cup {Teacher}
Sessions == {"room1", "room2"}

(* ------------------------------- strings ------------------------------- *)
Str_S == <<"S">>
Str_Q == <<"Q">>
Str_A == <<"A">>
Str_B == <<"B">>
Str_C == <<"C">>
Sp == <<" ">>

IsSpace(ch) == ch = " "

RECURSIVE TrimLeft(_)
TrimLeft(s) ==
  IF s # <<>> /\ IsSpace(Head(s)) THEN TrimLeft(Tail(s)) ELSE s

RECURSIVE TrimRight(_)
TrimRight(s) ==
  IF s # <<>> /\ IsSpace(s[Len(s)])
    THEN TrimRight(SubSeq(s, 1, Len(s) - 1))
    ELSE s

\* String.prototype.trim
trim(s) == TrimRight(TrimLeft(s))

Digit(d) == <<"0", "1", "2", "3", "4", "5", "6", "7", "8", "9">>[d + 1]

\* decimal rendering of a counter inside a template literal
RECURSIVE NumToStr(_)
NumToStr(n) ==
  IF n < 10 THEN <<Digit(n)>> ELSE NumToStr(n \div 10) \o <<Digit(n % 10)>>

\* `${trimmedName} (${counter})`
Suffixed(trimmedName, counter) ==
  trimmedName \o <<" ", "(">> \o NumToStr(counter) \o <<")">>

\* map over a sequence
SeqMap(Op(_), s) == [i \in 1..Len(s) |-> Op(s[i])]

\* the set of elements of a sequence
Range(s) == {s[i] : i \in 1..Len(s)}

RECURSIVE SumFn(_, _)
SumFn(f, D) ==
  IF D = {} THEN 0
  ELSE LET d == CHOOSE x \in D : TRUE IN f[d] + SumFn(f, D \ {d})

\* sum of the counts of a tally
TallySum(f) == SumFn(f, DOMAIN f)

(* -------------------------------- state -------------------------------- *)
VARIABLES
  now,            \* Date.now(), in ms
  currentPoll,    \* Null or the active poll
  students,       \* the students object, in key (insertion) order
  pollResults,    \* reference to the tally object the variable is bound to
  heap,           \* tally objects: reference -> (option -> count)
  pastPolls,      \* history, oldest first
  pollTimeout,    \* 0 (null) or the handle of the timer armed last
  timers,         \* timers pending in the event loop
  pollSeq,        \* number of polls started so far (identity of a poll object)
  voted,          \* <<socket, answer>> of the answers accepted for the active poll
  pollEnded,      \* ids of the polls a poll_ended broadcast was emitted for
  emits,          \* what the last handler emitted, in order
  last,           \* the event handled last
  connected,      \* sockets that have not disconnected
  chatMessages,   \* session -> message log
  chatParticipants, \* session -> participant list
  rooms           \* session -> sockets in the Socket.IO room chat-<session>

pollVars == <<currentPoll, students, pollResults, heap, pastPolls, pollTimeout,
              timers, pollEnded, emits>>
chatVars == <<chatMessages, chatParticipants, rooms>>
vars == <<now, pollVars, pollSeq, voted, last, connected, chatVars>>

Null == <<>>

\* let currentPoll = null; let students = {}; let pollResults = {}; ...
Init ==
  /\ now = 0
  /\ currentPoll = Null
  /\ students = <<>>
  /\ pollResults = 1
  /\ heap = [r \in {1} |-> <<>>]
  /\ pastPolls = <<>>
  /\ pollTimeout = 0
  /\ timers = {}
  /\ pollSeq = 0
  /\ voted = {}
  /\ pollEnded = <<>>
  /\ emits = <<>>
  /\ last = [ev |-> "init", conn |-> 0, arg |-> <<>>]
  /\ connected = Sockets
  /\ chatMessages = <<>>
  /\ chatParticipants = <<>>
  /\ rooms = [s \in Sessions |-> {}]

(* ------------------------------ the roster ----------------------------- *)
\* Object.keys(students).length
StudentCount(sts) == Len(sts)

\* Object.values(students).filter((s) => s.answered).length
AnsweredCount(sts) == Cardinality({i \in 1..Len(sts) : sts[i].answered})

\* Object.values(students).filter((s) => !s.answered).length
UnansweredCount(sts) == Cardinality({i \in 1..Len(sts) : ~sts[i].answered})

\* position of students[c] in key order, 0 when students[c] is undefined
StudentIdx(sts, c) ==
  IF \E i \in 1..Len(sts) : sts[i].id = c
    THEN CHOOSE i \in 1..Len(sts) : sts[i].id = c
    ELSE 0

HasStudent(sts, c) == StudentIdx(sts, c) # 0

\* delete students[c]
DeleteStudent(sts, c) ==
  LET keep == {i \in 1..Len(sts) : sts[i].id # c}
      F[i \in 0..Len(sts)] ==
        IF i = 0 THEN <<>>
        ELSE IF i \in keep THEN Append(F[i - 1], sts[i]) ELSE F[i - 1]
  IN F[Len(sts)]

\* a reset that leaves the answered flags as they are
ResetAnswered_Keep(sts) == sts

\* students[id].answered = false, for every id
ResetAnswered(sts) == [i \in 1..Len(sts) |-> [sts[i] EXCEPT !.answered = FALSE]]

\* the while loop of join_student: first free name among N, N (2), N (3), ...
RECURSIVE UniqueNameLoop(_, _, _, _)
UniqueNameLoop(trimmedName, existingStudents, counter, uniqueName) ==
  IF uniqueName \in existingStudents
    THEN UniqueNameLoop(trimmedName, existingStudents, counter + 1,
                        Suffixed(trimmedName, counter + 1))
    ELSE uniqueName

UniqueName(trimmedName, sts) ==
  UniqueNameLoop(trimmedName, {sts[i].name : i \in 1..Len(sts)}, 1, trimmedName)

(* ---------------------------- the poll engine -------------------------- *)
\* F(v), with v evaluated once
Then(v, F(_)) == CHOOSE r \in {F(x) : x \in {v}} : TRUE

\* The module-level variables a handler reads and writes, as one value, so
\* that the calls a handler makes compose in program order.
Cur ==
  [currentPoll |-> currentPoll, students |-> students,
   pollResults |-> pollResults, heap |-> heap, pastPolls |-> pastPolls,
   pollTimeout |-> pollTimeout, timers |-> timers,
   pollEnded |-> pollEnded, emits |-> <<>>]

Install(st) ==
  /\ currentPoll' = st.currentPoll
  /\ students' = st.students
  /\ pollResults' = st.pollResults
  /\ heap' = st.heap
  /\ pastPolls' = st.pastPolls
  /\ pollTimeout' = st.pollTimeout
  /\ timers' = st.timers
  /\ pollEnded' = st.pollEnded
  /\ emits' = st.emits

Emit(st, e) == [st EXCEPT !.emits = Append(@, e)]

ToSocket(c, ev, data) == [ev |-> ev, scope |-> "socket", to |-> c, data |-> data]
ToAll(ev, data) == [ev |-> ev, scope |-> "all", to |-> 0, data |-> data]

\* the tally objects the history still refers to
RecordRefs(list) == {list[i].results : i \in 1..Len(list)}

\* the tally emptied in place: the object a history record refers to is the
\* object the next poll counts in
NewTally_InPlace(st0) == [st0 EXCEPT !.heap[st0.pollResults] = <<>>]

\* pollResults = {}: the variable is bound to a new, empty object; the object
\* it was bound to lives on only if a history record refers to it
NewTally(st0) ==
  Then(st0, LAMBDA st :
  Then(RecordRefs(st.pastPolls), LAMBDA kept :
  Then(CHOOSE n \in 1..(Cardinality(kept) + 1) : n \notin kept, LAMBDA ref :
    [st EXCEPT !.pollResults = ref,
               !.heap = [r \in kept \cup {ref} |->
                           IF r = ref THEN <<>> ELSE st.heap[r]]])))

\* { ...currentPoll, results: pollResults, endTime, totalStudents, answeredStudents }
PastPollRecord(st) ==
  [id |-> st.currentPoll.id,
   question |-> st.currentPoll.question,
   options |-> st.currentPoll.options,
   duration |-> st.currentPoll.duration,
   startTime |-> st.currentPoll.startTime,
   results |-> st.pollResults,
   endTime |-> now,
   totalStudents |-> StudentCount(st.students),
   answeredStudents |-> AnsweredCount(st.students)]

\* pastPolls.push(record)
Push(list, record) == Append(list, record)

\* a clearTimeout that cancels nothing
ClearTimeout_Noop(tm, handle) == tm

\* clearTimeout(handle): a pending timer with that handle never fires
ClearTimeout(tm, handle) == {t \in tm : t.id # handle}

\* resetPoll that forgets currentPoll = null
resetPoll_KeepPoll(st0) ==
  Then(st0, LAMBDA st :
  Then(IF st.currentPoll # Null
         THEN [st EXCEPT !.pastPolls = Push(@, PastPollRecord(st))]
         ELSE st, LAMBDA st1 :
  Then(NewTally(st1), LAMBDA st2 :
    [st2 EXCEPT !.students = ResetAnswered(@),
                !.timers = IF st2.pollTimeout # 0
                             THEN ClearTimeout(@, st2.pollTimeout) ELSE @,
                !.pollTimeout = 0])))

\* resetPoll that discards the poll without archiving it
resetPoll_NoArchive(st0) ==
  Then(st0, LAMBDA st :
  Then(NewTally([st EXCEPT !.currentPoll = Null]), LAMBDA st2 :
    [st2 EXCEPT !.students = ResetAnswered(@),
                !.timers = IF st2.pollTimeout # 0
                             THEN ClearTimeout(@, st2.pollTimeout) ELSE @,
                !.pollTimeout = 0]))

resetPoll(st0) ==
  Then(st0, LAMBDA st :
  Then(IF st.currentPoll # Null
         THEN [st EXCEPT !.pastPolls = Push(@, PastPollRecord(st))]
         ELSE st, LAMBDA st1 :
  Then(NewTally([st1 EXCEPT !.currentPoll = Null]), LAMBDA st2 :
    [st2 EXCEPT !.students = ResetAnswered(@),
                !.timers = IF st2.pollTimeout # 0
                             THEN ClearTimeout(@, st2.pollTimeout) ELSE @,
                !.pollTimeout = 0])))

\* endPoll that archives the poll without the poll_ended broadcast
endPoll_NoBroadcast(st0) ==
  Then(st0, LAMBDA st :
    IF st.currentPoll # Null THEN resetPoll(st) ELSE st)

\* endPoll that resets the poll before it builds the poll_ended payload
endPoll_ResetFirst(st0) ==
  Then(st0, LAMBDA st :
    IF st.currentPoll # Null
      THEN Then(resetPoll(st), LAMBDA st1 :
             [Emit(st1, ToAll("poll_ended",
                              [results |-> st1.heap[st1.pollResults],
                               question |-> st.currentPoll.question,
                               options |-> st.currentPoll.options]))
                EXCEPT !.pollEnded = Append(@, st.currentPoll.id)])
      ELSE st)

endPoll(st0) ==
  Then(st0, LAMBDA st :
    IF st.currentPoll # Null
      THEN resetPoll(
             [Emit(st, ToAll("poll_ended",
                             [results |-> st.heap[st.pollResults],
                              question |-> st.currentPoll.question,
                              options |-> st.currentPoll.options]))
                EXCEPT !.pollEnded = Append(@, st.currentPoll.id)])
      ELSE st)

(* ------------------------------- handlers ------------------------------ *)
\* join_student, after the name check: the roster and what is emitted
join_student(c, trimmedName) ==
  Then(StudentIdx(students, c), LAMBDA i :
  Then(IF i # 0
         THEN [students EXCEPT ![i].name = trimmedName,
                               ![i].answered = FALSE]
         ELSE Append(students,
                     [id |-> c,
                      name |-> UniqueName(trimmedName, students),
                      originalName |-> trimmedName,
                      answered |-> FALSE]), LAMBDA sts :
  Then(sts[StudentIdx(sts, c)], LAMBDA me :
  Then(Emit([Cur EXCEPT !.students = sts],
            ToSocket(c, "join_success",
                     [name |-> me.name,
                      originalName |-> me.originalName,
                      modified |-> me.name # trimmedName])), LAMBDA st1 :
    Emit(IF currentPoll # Null
           THEN Emit(st1, ToSocket(c, "new_question", [id |-> currentPoll.id]))
           ELSE st1,
         ToAll("student_count_update", [count |-> StudentCount(sts)]))))))

\* socket.on("join_student", (name) => ...)
JoinStudent(c, name) ==
  /\ c \in connected
  /\ last' = [ev |-> "join_student", conn |-> c, arg |-> name]
  /\ \E st \in {IF trim(name) = <<>>
                   THEN Emit(Cur, ToSocket(c, "join_error", [n |-> 0]))
                   ELSE join_student(c, trim(name))} : Install(st)
  /\ UNCHANGED <<now, pollSeq, voted, connected, chatVars>>

\* pollData.duration || 60
Duration(d) == IF d = 0 THEN DefaultDuration ELSE d

\* the poll object teacher_start_poll builds
NewPoll(pollData) ==
  [id |-> pollSeq + 1,
   question |-> trim(pollData.question),
   options |-> SeqMap(trim, pollData.options),
   duration |-> Duration(pollData.duration),
   startTime |-> now]

\* an initialisation that starts every count below zero
ZeroTally_Negative(tally, options) ==
  [o \in DOMAIN tally \cup Range(options) |->
     IF o \in Range(options) THEN 0 - 1 ELSE tally[o]]

\* options.forEach((option) => { pollResults[option] = 0; })
ZeroTally(tally, options) ==
  [o \in DOMAIN tally \cup Range(options) |->
     IF o \in Range(options) THEN 0 ELSE tally[o]]

\* a start that never arms the timer
SetTimeout_Forget(tm, handle, delay) == tm

\* setTimeout(cb, delay): a timer of the event loop, due at now + delay
SetTimeout(tm, handle, delay) == tm \cup {[id |-> handle, due |-> now + delay]}

\* !pollData.question || !pollData.options || pollData.options.length < 2
InvalidPollData(pollData) ==
  pollData.question = <<>> \/ Len(pollData.options) < 2

\* the conflict check asking whether anyone is registered, not who has not answered
StartConflict_AnyStudent(poll, sts) == poll # Null /\ StudentCount(sts) > 0

\* a start that never reports a conflict
StartConflict_Never(poll, sts) == FALSE

\* if (currentPoll) { ... if (unansweredStudents > 0) { ... return; } }
StartConflict(poll, sts) == poll # Null /\ UnansweredCount(sts) > 0

\* teacher_start_poll, after the checks: resetPoll(), the new poll, its tally,
\* its timer
teacher_start_poll(c, pollData) ==
  Then(NewPoll(pollData), LAMBDA poll :
  Then(NewTally([resetPoll(Cur) EXCEPT !.currentPoll = poll]), LAMBDA st1 :
  Then([st1 EXCEPT !.heap[st1.pollResults] = ZeroTally(@, poll.options),
                   !.students = ResetAnswered(@)], LAMBDA st2 :
  Then(Emit(st2, ToAll("new_question", [id |-> poll.id])), LAMBDA st3 :
    Emit([st3 EXCEPT !.timers = SetTimeout(@, poll.id, poll.duration * MsPerSec),
                     !.pollTimeout = poll.id],
         ToSocket(c, "poll_started", [id |-> poll.id]))))))

\* socket.on("teacher_start_poll", (pollData) => ...)
TeacherStartPoll(c, pollData) ==
  /\ c \in connected
  /\ last' = [ev |-> "teacher_start_poll", conn |-> c, arg |-> pollData]
  /\ IF InvalidPollData(pollData)
       THEN /\ \E st \in {Emit(Cur, ToSocket(c, "poll_error",
                                   [kind |-> "invalid", n |-> 0]))} : Install(st)
            /\ UNCHANGED <<pollSeq, voted>>
       ELSE IF StartConflict(currentPoll, students)
         THEN /\ \E st \in {Emit(Cur, ToSocket(c, "poll_error",
                                     [kind |-> "conflict",
                                      n |-> UnansweredCount(students)]))} : Install(st)
              /\ UNCHANGED <<pollSeq, voted>>
         ELSE /\ pollSeq < MaxPolls
              /\ now + Duration(pollData.duration) * MsPerSec <= MaxNow
              /\ \E st \in {teacher_start_poll(c, pollData)} : Install(st)
              /\ pollSeq' = pollSeq + 1
              /\ voted' = {}
  /\ UNCHANGED <<now, connected, chatVars>>

\* currentPoll.options.includes(answer)
Includes(options, answer) == \E i \in 1..Len(options) : options[i] = answer

\* the guards with the option check ahead of the answered check
AnswerError_OptionFirst(c, answer) ==
  IF currentPoll = Null THEN "No active poll"
  ELSE IF ~HasStudent(students, c) THEN "Please join as a student first"
  ELSE IF ~Includes(currentPoll.options, answer) THEN "Invalid answer option"
  ELSE IF students[StudentIdx(students, c)].answered
    THEN "You have already answered this poll"
  ELSE IF now - currentPoll.startTime > currentPoll.duration * MsPerSec
    THEN "Poll has expired"
  ELSE ""

\* the guards with a poll that expires when its duration has just elapsed
AnswerError_ExpiredAtLimit(c, answer) ==
  IF currentPoll = Null THEN "No active poll"
  ELSE IF ~HasStudent(students, c) THEN "Please join as a student first"
  ELSE IF students[StudentIdx(students, c)].answered
    THEN "You have already answered this poll"
  ELSE IF ~Includes(currentPoll.options, answer) THEN "Invalid answer option"
  ELSE IF now - currentPoll.startTime >= currentPoll.duration * MsPerSec
    THEN "Poll has expired"
  ELSE ""

\* the guards of submit_answer, in program order; "" when the answer is accepted
AnswerError(c, answer) ==
  IF currentPoll = Null THEN "No active poll"
  ELSE IF ~HasStudent(students, c) THEN "Please join as a student first"
  ELSE IF students[StudentIdx(students, c)].answered
    THEN "You have already answered this poll"
  ELSE IF ~Includes(currentPoll.options, answer) THEN "Invalid answer option"
  ELSE IF now - currentPoll.startTime > currentPoll.duration * MsPerSec
    THEN "Poll has expired"
  ELSE ""

\* Object.values(students).every((s) => s.answered)
AllAnswered(sts) == \A i \in 1..Len(sts) : sts[i].answered

\* students[socket.id].answered = true
MarkAnswered(sts, c) == [sts EXCEPT ![StudentIdx(sts, c)].answered = TRUE]

\* an answer counted twice
Increment_Twice(tally, answer) == [tally EXCEPT ![answer] = @ + 2]

\* pollResults[answer]++
Increment(tally, answer) == [tally EXCEPT ![answer] = @ + 1]

\* submit_answer, after the guards: record, confirm, broadcast, maybe end
submit_answer(c, answer) ==
  Then([Cur EXCEPT !.students = MarkAnswered(@, c),
                   !.heap[pollResults] = Increment(@, answer)], LAMBDA st1 :
  Then(Emit(st1, ToSocket(c, "answer_submitted",
                          [answer |-> answer,
                           results |-> st1.heap[st1.pollResults]])), LAMBDA st2 :
  Then(Emit(st2, ToAll("live_results",
                       [results |-> st2.heap[st2.pollResults],
                        totalStudents |-> StudentCount(st2.students),
                        answeredStudents |-> AnsweredCount(st2.students)])), LAMBDA st3 :
    IF AllAnswered(st3.students) /\ StudentCount(st3.students) > 0
      THEN endPoll(st3)
      ELSE st3)))

\* socket.on("submit_answer", (answer) => ...)
SubmitAnswer(c, answer) ==
  /\ c \in connected
  /\ last' = [ev |-> "submit_answer", conn |-> c, arg |-> answer]
  /\ \E err \in {AnswerError(c, answer)} :
       IF err # ""
         THEN /\ \E st \in {Emit(Cur, ToSocket(c, "answer_error",
                                     [message |-> err]))} : Install(st)
              /\ UNCHANGED voted
         ELSE /\ TallySum(heap[pollResults]) < MaxAnswers
              /\ \E st \in {submit_answer(c, answer)} :
                   /\ Install(st)
                   /\ voted' = IF st.currentPoll = Null THEN {} ELSE voted \cup {<<c, answer>>}
  /\ UNCHANGED <<now, pollSeq, connected, chatVars>>

\* socket.on("teacher_end_poll", () => ...)
TeacherEndPoll(c) ==
  /\ c \in connected
  /\ last' = [ev |-> "teacher_end_poll", conn |-> c, arg |-> <<>>]
  /\ \E st \in {IF currentPoll # Null
                   THEN Emit(endPoll(Cur),
                             ToSocket(c, "poll_ended_by_teacher", [n |-> 0]))
                   ELSE Emit(Cur, ToSocket(c, "no_active_poll", [n |-> 0]))} :
       Install(st)
  /\ voted' = {}
  /\ UNCHANGED <<now, pollSeq, connected, chatVars>>

\* the callback of the poll timer: () => { endPoll(); }
TimerFire ==
  \E t \in timers :
    /\ now >= t.due
    /\ last' = [ev |-> "timer", conn |-> 0, arg |-> <<>>]
    /\ \E st \in {endPoll([Cur EXCEPT !.timers = @ \ {t}])} : Install(st)
    /\ voted' = {}
    /\ UNCHANGED <<now, pollSeq, connected, chatVars>>

\* a find that returns the last student of that name
FindByName_Last(sts, studentName) ==
  Then({i \in 1..Len(sts) : sts[i].name = studentName}, LAMBDA hits :
    IF hits = {} THEN 0
    ELSE sts[CHOOSE i \in hits : \A j \in hits : i >= j].id)

\* Object.keys(students).find((id) => students[id].name === studentName)
FindByName(sts, studentName) ==
  Then({i \in 1..Len(sts) : sts[i].name = studentName}, LAMBDA hits :
    IF hits = {} THEN 0
    ELSE sts[CHOOSE i \in hits : \A j \in hits : i <= j].id)

\* kick_student of a student that was found
kick_student(c, studentName, studentSocketId) ==
  Then([Emit(Cur, ToSocket(studentSocketId, "kicked", [n |-> 0]))
          EXCEPT !.students = DeleteStudent(@, studentSocketId)], LAMBDA st2 :
    Emit(Emit(st2, ToAll("student_count_update",
                         [count |-> StudentCount(st2.students)])),
         ToSocket(c, "student_kicked", [name |-> studentName])))

\* socket.on("kick_student", (studentName) => ...)
KickStudent(c, studentName) ==
  /\ c \in connected
  /\ last' = [ev |-> "kick_student", conn |-> c, arg |-> studentName]
  /\ \E studentSocketId \in {FindByName(students, studentName)} :
       \E st \in {IF studentSocketId # 0
                     THEN kick_student(c, studentName, studentSocketId)
                     ELSE Emit(Cur, ToSocket(c, "kick_error", [n |-> 0]))} :
         Install(st)
  /\ UNCHANGED <<now, pollSeq, voted, connected, chatVars>>

\* Math.max(0, currentPoll.startTime + currentPoll.duration * 1000 - Date.now())
TimeRemaining(poll) ==
  LET r == poll.startTime + poll.duration * MsPerSec - now
  IN IF r > 0 THEN r ELSE 0

\* socket.on("get_current_results", () => ...)
GetCurrentResults(c) ==
  /\ c \in connected
  /\ last' = [ev |-> "get_current_results", conn |-> c, arg |-> <<>>]
  /\ emits' = IF currentPoll # Null
                THEN <<ToSocket(c, "current_results",
                         [poll |-> currentPoll,
                          results |-> heap[pollResults],
                          totalStudents |-> StudentCount(students),
                          answeredStudents |-> AnsweredCount(students),
                          timeRemaining |-> TimeRemaining(currentPoll)])>>
                ELSE <<ToSocket(c, "no_active_poll", [n |-> 0])>>
  /\ UNCHANGED <<now, currentPoll, students, pollResults, heap, pastPolls, pollTimeout,
                 timers, pollEnded, pollSeq, voted, connected, chatVars>>

\* socket.on("get_students", () => ...)
GetStudents(c) ==
  /\ c \in connected
  /\ last' = [ev |-> "get_students", conn |-> c, arg |-> <<>>]
  /\ emits' = <<ToSocket(c, "students_list",
                  [list |-> [i \in 1..Len(students) |->
                               [name |-> students[i].name,
                                answered |-> students[i].answered]]])>>
  /\ UNCHANGED <<now, currentPoll, students, pollResults, heap, pastPolls, pollTimeout,
                 timers, pollEnded, pollSeq, voted, connected, chatVars>>

\* pastPolls as a client sees it: every record with the content of its results
PastPollsView ==
  [i \in 1..Len(pastPolls) |-> [pastPolls[i] EXCEPT !.results = heap[@]]]

\* socket.on("get_past_polls", () => ...)
GetPastPolls(c) ==
  /\ c \in connected
  /\ last' = [ev |-> "get_past_polls", conn |-> c, arg |-> <<>>]
  /\ emits' = <<ToSocket(c, "past_polls", [list |-> PastPollsView])>>
  /\ UNCHANGED <<now, currentPoll, students, pollResults, heap, pastPolls, pollTimeout,
                 timers, pollEnded, pollSeq, voted, connected, chatVars>>

\* the payload of server_status
ServerStatus ==
  [connectedStudents |-> StudentCount(students),
   activePoll |-> IF currentPoll # Null
                    THEN [question |-> currentPoll.question,
                          options |-> currentPoll.options,
                          timeRemaining |-> TimeRemaining(currentPoll)]
                    ELSE Null,
   totalPastPolls |-> Len(pastPolls)]

\* socket.on("get_status", () => ...)
GetStatus(c) ==
  /\ c \in connected
  /\ last' = [ev |-> "get_status", conn |-> c, arg |-> <<>>]
  /\ emits' = <<ToSocket(c, "server_status", ServerStatus)>>
  /\ UNCHANGED <<now, currentPoll, students, pollResults, heap, pastPolls, pollTimeout,
                 timers, pollEnded, pollSeq, voted, connected, chatVars>>

(* ------------------------------ chat rooms ----------------------------- *)
ToRoom(s, ev, data) == [ev |-> ev, scope |-> "room", to |-> rooms[s], data |-> data]

\* list.findIndex(pred), 0 for -1
FindIndex(list, Pred(_)) ==
  LET hits == {i \in 1..Len(list) : Pred(list[i])}
  IN IF hits = {} THEN 0 ELSE CHOOSE i \in hits : \A j \in hits : i <= j

\* a splice that removes the last element
Splice_Last(list, idx) == SubSeq(list, 1, Len(list) - 1)

\* list.splice(idx, 1)
Splice(list, idx) == SubSeq(list, 1, idx - 1) \o SubSeq(list, idx + 1, Len(list))

\* io.to(`chat-${sessionId}`).emit(...) to the sockets that are in the room
ToSockets(members, ev, data) ==
  [ev |-> ev, scope |-> "room", to |-> members, data |-> data]

\* the poll engine and the roster, which no chat handler touches
engineVars ==
  <<currentPoll, students, pollResults, heap, pastPolls, pollTimeout, timers,
    pollEnded, pollSeq, voted>>

\* an initialisation that creates every session
EnsureSession_All(obj, sessionId) ==
  [s \in Sessions |-> IF s \in DOMAIN obj THEN obj[s] ELSE <<>>]

\* if (!obj[sessionId]) { obj[sessionId] = []; }
EnsureSession(obj, sessionId) ==
  IF sessionId \in DOMAIN obj THEN obj
  ELSE [s \in DOMAIN obj \cup {sessionId} |->
          IF s = sessionId THEN <<>> ELSE obj[s]]

\* chatParticipants[sessionId].find((p) => p.name === user)
HasName(list, user) == \E i \in 1..Len(list) : list[i].name = user

\* a join-chat that tells participants apart by socket, not by name
join_chat_ById(list, c, user) ==
  IF \E i \in 1..Len(list) : list[i].id = c THEN list
  ELSE Append(list, [id |-> c, name |-> user, joinedAt |-> now])

\* join-chat: the participant list of the session after the call
join_chat(list, c, user) ==
  IF HasName(list, user) THEN list
  ELSE Append(list, [id |-> c, name |-> user, joinedAt |-> now])

\* socket.on("join-chat", (data) => ...)
JoinChat(c, data) ==
  /\ c \in connected
  /\ last' = [ev |-> "join-chat", conn |-> c, arg |-> data]
  /\ \E cm \in {EnsureSession(chatMessages, data.sessionId)} :
     \E cp0 \in {EnsureSession(chatParticipants, data.sessionId)} :
     \E cp \in {[cp0 EXCEPT ![data.sessionId] = join_chat(@, c, data.user)]} :
     \E rm \in {[rooms EXCEPT ![data.sessionId] = @ \cup {c}]} :
       /\ chatMessages' = cm
       /\ chatParticipants' = cp
       /\ rooms' = rm
       /\ emits' = <<ToSocket(c, "chat-history", [list |-> cm[data.sessionId]]),
                     ToSockets(rm[data.sessionId], "participants-updated",
                               [list |-> cp[data.sessionId]])>>
  /\ UNCHANGED <<now, engineVars, connected>>

\* the outcomes of Math.random() that are told apart
RandomDraws == {1, 2}

\* ms in the minute toLocaleTimeString renders
MsPerMinute == DefaultDuration * MsPerSec

\* the message object of send-message; id is Date.now() + Math.random()
MessageObj(data, random) ==
  [id |-> <<now, random>>,
   user |-> data.user,
   message |-> data.message,
   timestamp |-> now,
   time |-> now \div MsPerMinute]

\* a message stored in front of the log
PushMessage_Front(log, messageObj) == <<messageObj>> \o log

\* chatMessages[sessionId].push(messageObj)
PushMessage(log, messageObj) == Append(log, messageObj)

\* socket.on("send-message", (data) => ...)
SendMessage(c, data) ==
  /\ c \in connected
  /\ SumFn([s \in DOMAIN chatMessages |-> Len(chatMessages[s])],
           DOMAIN chatMessages) < MaxMessages
  /\ last' = [ev |-> "send-message", conn |-> c, arg |-> data]
  /\ \E random \in RandomDraws :
     \E messageObj \in {MessageObj(data, random)} :
       /\ chatMessages' =
            [EnsureSession(chatMessages, data.sessionId)
               EXCEPT ![data.sessionId] = PushMessage(@, messageObj)]
       /\ emits' = <<ToRoom(data.sessionId, "new-message", messageObj)>>
  /\ UNCHANGED <<now, engineVars, connected, chatParticipants, rooms>>

\* socket.on("kick-user", (data) => ...)
KickUser(c, data) ==
  /\ c \in connected
  /\ last' = [ev |-> "kick-user", conn |-> c, arg |-> data]
  /\ \E participantIndex \in
          {IF data.sessionId \in DOMAIN chatParticipants
             THEN FindIndex(chatParticipants[data.sessionId],
                            LAMBDA p : p.name = data.userName)
             ELSE 0} :
       IF participantIndex # 0
         THEN \E participant \in {chatParticipants[data.sessionId][participantIndex]} :
              \E cp \in {[chatParticipants EXCEPT
                             ![data.sessionId] = Splice(@, participantIndex)]} :
                /\ chatParticipants' = cp
                /\ emits' = <<ToSockets({participant.id} \cap connected, "user-kicked",
                                        [userName |-> data.userName]),
                              ToRoom(data.sessionId, "participants-updated",
                                     [list |-> cp[data.sessionId]])>>
         ELSE /\ emits' = <<>>
              /\ UNCHANGED chatParticipants
  /\ UNCHANGED <<now, engineVars, connected, chatMessages, rooms>>

\* a leave-chat that removes the entries with the user name given
leave_chat_ByName(list, c, user) ==
  SelectSeq(list, LAMBDA p : p.name # user)

\* chatParticipants[sessionId].filter((p) => p.id !== socket.id)
leave_chat(list, c, user) ==
  SelectSeq(list, LAMBDA p : p.id # c)

\* socket.on("leave-chat", (data) => ...)
LeaveChat(c, data) ==
  /\ c \in connected
  /\ last' = [ev |-> "leave-chat", conn |-> c, arg |-> data]
  /\ IF data.sessionId \in DOMAIN chatParticipants
       THEN \E cp \in {[chatParticipants EXCEPT
                           ![data.sessionId] = leave_chat(@, c, data.user)]} :
            \E rm \in {[rooms EXCEPT ![data.sessionId] = @ \ {c}]} :
              /\ chatParticipants' = cp
              /\ rooms' = rm
              /\ emits' = <<ToSockets(rm[data.sessionId], "participants-updated",
                                      [list |-> cp[data.sessionId]])>>
       ELSE /\ emits' = <<>>
            /\ UNCHANGED <<chatParticipants, rooms>>
  /\ UNCHANGED <<now, engineVars, connected, chatMessages>>

\* the sessions of chatParticipants, in a fixed order
SessionOrder == <<"room1", "room2">>

\* socket.on("disconnect", () => ...)
Disconnect(c) ==
  LET st1 == IF HasStudent(students, c)
               THEN Emit([Cur EXCEPT !.students = DeleteStudent(@, c)],
                         ToAll("student_count_update",
                               [count |-> StudentCount(students) - 1]))
               ELSE Cur
      IdxOf(s) == FindIndex(chatParticipants[s], LAMBDA p : p.id = c)
      hit == {s \in DOMAIN chatParticipants : IdxOf(s) # 0}
      cp == [s \in DOMAIN chatParticipants |->
               IF s \in hit THEN Splice(chatParticipants[s], IdxOf(s))
               ELSE chatParticipants[s]]
      rm == [s \in Sessions |-> rooms[s] \ {c}]
      Bcast[i \in 0..Len(SessionOrder)] ==
        IF i = 0 THEN st1.emits
        ELSE IF SessionOrder[i] \in hit
          THEN Append(Bcast[i - 1],
                      [ev |-> "participants-updated", scope |-> "room",
                       to |-> rm[SessionOrder[i]],
                       data |-> [list |-> cp[SessionOrder[i]]]])
          ELSE Bcast[i - 1]
  IN /\ c \in connected
     /\ connected' = connected \ {c}
     /\ last' = [ev |-> "disconnect", conn |-> c, arg |-> <<>>]
     /\ \E st \in {[st1 EXCEPT !.emits = Bcast[Len(SessionOrder)]]} : Install(st)
     /\ chatParticipants' = cp
     /\ rooms' = rm
     /\ UNCHANGED <<now, pollSeq, voted, chatMessages>>

\* the clock advances
Tick ==
  /\ now + TickMs <= MaxNow
  /\ now' = now + TickMs
  /\ last' = [ev |-> "tick", conn |-> 0, arg |-> <<>>]
  /\ emits' = <<>>
  /\ UNCHANGED <<currentPoll, students, pollResults, heap, pastPolls, pollTimeout,
                 timers, pollEnded, pollSeq, voted, connected, chatVars>>

(* ------------------------------- inputs -------------------------------- *)
\* the name socket c asks for: " S1", " S2", ...
JoinName(c) == Sp \o Str_S \o NumToStr(c)
KickNames == {trim(JoinName(c)) : c \in Conns}
\* a valid option and a string that is no option
Answers == {Str_A, Str_C}
PollInputs ==
  {[question |-> Str_Q, options |-> <<Str_A, Str_B \o Sp>>, duration |-> 30],
   [question |-> Str_Q, options |-> <<Str_A>>, duration |-> 0]}

Next ==
  \/ \E c \in Conns : JoinStudent(c, JoinName(c))
  \/ \E pollData \in PollInputs : TeacherStartPoll(Teacher, pollData)
  \/ \E c \in Conns, answer \in Answers : SubmitAnswer(c, answer)
  \/ TeacherEndPoll(Teacher)
  \/ \E studentName \in KickNames : KickStudent(Teacher, studentName)
  \/ \E c \in Conns : Disconnect(c)
  \/ TimerFire
  \/ Tick

Spec == Init /\ [][Next]_vars

\* The event loop runs a due timer callback, and time passes.
FairSpec == Spec /\ WF_vars(TimerFire) /\ WF_vars(Tick)

\* A poll answered by a roster that does not change while the poll is active:
\* students join, are kicked and disconnect only between polls, and both
\* options of the poll are answered.
AnswersStable == {Str_A, Str_B}

NextStable ==
  \/ currentPoll = Null /\ \E c \in Conns : JoinStudent(c, JoinName(c))
  \/ \E pollData \in PollInputs : TeacherStartPoll(Teacher, pollData)
  \/ \E c \in Conns, answer \in AnswersStable : SubmitAnswer(c, answer)
  \/ TeacherEndPoll(Teacher)
  \/ currentPoll = Null /\ \E studentName \in KickNames : KickStudent(Teacher, studentName)
  \/ currentPoll = Null /\ \E c \in Conns : Disconnect(c)
  \/ TimerFire
  \/ Tick

SpecStable == Init /\ [][NextStable]_vars

\* The roster alone: every socket asks for names that collide, among them a
\* name that already carries a suffix.
Str_S2 == <<"S", " ", "(", "2", ")">>
JoinNames == {Sp \o Str_S, Str_S \o Sp, Str_S2, Str_B, Sp}

NextJoin ==
  \/ \E c \in Sockets, name \in JoinNames : JoinStudent(c, name)
  \/ \E c \in Sockets : Disconnect(c)

SpecJoin == Init /\ [][NextJoin]_vars

\* The chat rooms alone: two users, under names that may coincide, in two
\* sessions, and the teacher removing users by name.
ChatUsers == {"Ann", "Bob"}
JoinData == [sessionId : Sessions, user : ChatUsers]
MessageData == [sessionId : Sessions, user : ChatUsers, message : {"hi"}]
KickData == [sessionId : Sessions, userName : ChatUsers]
LeaveData == [sessionId : Sessions, user : {"Ann"}]

NextChat ==
  \/ \E c \in Conns, data \in JoinData : JoinChat(c, data)
  \/ \E c \in Conns, data \in MessageData : SendMessage(c, data)
  \/ \E data \in KickData : KickUser(Teacher, data)
  \/ \E c \in Conns, data \in LeaveData : LeaveChat(c, data)
  \/ \E c \in Conns : Disconnect(c)

SpecChat == Init /\ [][NextChat]_vars

\* Poll definitions at the edge of validation: options that coincide once
\* trimmed, a question of white space, no question, one option.
StartInputs ==
  {[question |-> Str_Q, options |-> <<Str_A, Str_A \o Sp>>, duration |-> 30],
   [question |-> Sp, options |-> <<Str_A, Str_B>>, duration |-> 0],
   [question |-> <<>>, options |-> <<Str_A, Str_B>>, duration |-> 30],
   [question |-> Str_Q, options |-> <<Str_A>>, duration |-> 30]}

NextStart ==
  \/ \E c \in Conns : JoinStudent(c, JoinName(c))
  \/ \E pollData \in StartInputs : TeacherStartPoll(Teacher, pollData)
  \/ \E c \in Conns : SubmitAnswer(c, Str_A)
  \/ TeacherEndPoll(Teacher)
  \/ TimerFire
  \/ Tick

SpecStart == Init /\ [][NextStart]_vars

\* The poll engine with the teacher's queries between the other events.
NextQuery ==
  \/ Next
  \/ GetStatus(Teacher)
  \/ GetCurrentResults(Teacher)
  \/ GetStudents(Teacher)
  \/ GetPastPolls(Teacher)

SpecQuery == Init /\ [][NextQuery]_vars

\* Kicks with names that several students have: a socket that joins again
\* takes its new name as it is, so two students can both be called S.
RejoinNames == {Str_S, Str_B}

NextKick ==
  \/ \E c \in Conns, name \in RejoinNames : JoinStudent(c, name)
  \/ TeacherStartPoll(Teacher, [question |-> Str_Q,
                                options |-> <<Str_A, Str_B>>, duration |-> 30])
  \/ \E c \in Conns : SubmitAnswer(c, Str_A)
  \/ \E studentName \in RejoinNames : KickStudent(Teacher, studentName)
  \/ \E c \in Conns : Disconnect(c)

SpecKick == Init /\ [][NextKick]_vars

\* Polls and chat side by side: one socket that is a student and a chat
\* user at once, the teacher, and the teacher's queries.
FrameConns == {CHOOSE c \in Conns : \A d \in Conns : c <= d}
FramePoll == [question |-> Str_Q, options |-> <<Str_A, Str_B>>, duration |-> 30]

NextFrame ==
  \/ \E c \in FrameConns : JoinStudent(c, JoinName(c))
  \/ TeacherStartPoll(Teacher, FramePoll)
  \/ \E c \in FrameConns : SubmitAnswer(c, Str_A)
  \/ TeacherEndPoll(Teacher)
  \/ \E c \in FrameConns : KickStudent(Teacher, trim(JoinName(c)))
  \/ TimerFire
  \/ Tick
  \/ GetStatus(Teacher)
  \/ GetCurrentResults(Teacher)
  \/ GetStudents(Teacher)
  \/ GetPastPolls(Teacher)
  \/ \E c \in FrameConns, data \in LeaveData : JoinChat(c, data)
  \/ \E c \in FrameConns :
       SendMessage(c, [sessionId |-> SessionOrder[1], user |-> "Ann", message |-> "hi"])
  \/ \E data \in LeaveData :
       KickUser(Teacher, [sessionId |-> data.sessionId, userName |-> data.user])
  \/ \E c \in FrameConns, data \in LeaveData : LeaveChat(c, data)
  \/ \E c \in FrameConns : Disconnect(c)

SpecFrame == Init /\ [][NextFrame]_vars

(* --------------------- the variant without chat: server.js ------------- *)
\* The handlers of src/server.js, as functions of the state sv the variant
\* holds: a record of its module-level variables, its timers and what it
\* emits.  Its students carry no originalName.

\* function resetPoll() of server.js
server_resetPoll(sv0) ==
  Then(sv0, LAMBDA sv :
  Then(IF sv.currentPoll # Null
         THEN [sv EXCEPT !.pastPolls = Push(@, PastPollRecord(sv))]
         ELSE sv, LAMBDA sv1 :
  Then(NewTally([sv1 EXCEPT !.currentPoll = Null]), LAMBDA sv2 :
    [sv2 EXCEPT !.students = ResetAnswered(@),
                !.timers = IF sv2.pollTimeout # 0
                             THEN ClearTimeout(@, sv2.pollTimeout) ELSE @,
                !.pollTimeout = 0])))

\* function endPoll() of server.js
server_endPoll(sv0) ==
  Then(sv0, LAMBDA sv :
    IF sv.currentPoll # Null
      THEN server_resetPoll(
             [Emit(sv, ToAll("poll_ended",
                             [results |-> sv.heap[sv.pollResults],
                              question |-> sv.currentPoll.question,
                              options |-> sv.currentPoll.options]))
                EXCEPT !.pollEnded = Append(@, sv.currentPoll.id)])
      ELSE sv)

\* students[socket.id] = { name: name.trim(), answered: false, joinedAt }:
\* an assignment to a key the object has keeps the key's position
server_SetStudent(sts, c, student) ==
  IF HasStudent(sts, c)
    THEN [sts EXCEPT ![StudentIdx(sts, c)] = student]
    ELSE Append(sts, student)

\* a join that leaves the record of a socket that is registered as it is
server_join_student_KeepRecord(sv, c, name) ==
  IF trim(name) = <<>>
    THEN Emit(sv, ToSocket(c, "join_error", [n |-> 0]))
    ELSE IF HasStudent(sv.students, c) THEN sv
    ELSE [sv EXCEPT !.students =
            Append(@, [id |-> c, name |-> trim(name), answered |-> FALSE])]

\* socket.on("join_student", (name) => ...) of server.js
server_join_student(sv, c, name) ==
  IF trim(name) = <<>>
    THEN Emit(sv, ToSocket(c, "join_error", [n |-> 0]))
    ELSE
      Then([sv EXCEPT !.students =
              server_SetStudent(@, c, [id |-> c, name |-> trim(name),
                                       answered |-> FALSE])], LAMBDA sv1 :
      Then(Emit(sv1, ToSocket(c, "join_success", [name |-> trim(name)])),
           LAMBDA sv2 :
        Emit(IF sv2.currentPoll # Null
               THEN Emit(sv2, ToSocket(c, "new_question",
                                       [id |-> sv2.currentPoll.id]))
               ELSE sv2,
             ToAll("student_count_update",
                   [count |-> StudentCount(sv2.students)]))))

\* socket.on("teacher_start_poll", (pollData) => ...) of server.js
server_teacher_start_poll(sv, c, pollData) ==
  IF InvalidPollData(pollData)
    THEN Emit(sv, ToSocket(c, "poll_error", [kind |-> "invalid", n |-> 0]))
  ELSE IF sv.currentPoll # Null /\ UnansweredCount(sv.students) > 0
    THEN Emit(sv, ToSocket(c, "poll_error",
                           [kind |-> "conflict",
                            n |-> UnansweredCount(sv.students)]))
  ELSE
    Then(NewPoll(pollData), LAMBDA poll :
    Then(NewTally([server_resetPoll(sv) EXCEPT !.currentPoll = poll]), LAMBDA sv1 :
    Then([sv1 EXCEPT !.heap[sv1.pollResults] = ZeroTally(@, poll.options),
                     !.students = ResetAnswered(@)], LAMBDA sv2 :
    Then(Emit(sv2, ToAll("new_question", [id |-> poll.id])), LAMBDA sv3 :
      Emit([sv3 EXCEPT !.timers = SetTimeout(@, poll.id, poll.duration * MsPerSec),
                       !.pollTimeout = poll.id],
           ToSocket(c, "poll_started", [id |-> poll.id]))))))

\* the guards of submit_answer of server.js; "" when the answer is accepted
server_AnswerError(sv, c, answer) ==
  IF sv.currentPoll = Null THEN "No active poll"
  ELSE IF ~HasStudent(sv.students, c) THEN "Please join as a student first"
  ELSE IF sv.students[StudentIdx(sv.students, c)].answered
    THEN "You have already answered this poll"
  ELSE IF ~Includes(sv.currentPoll.options, answer) THEN "Invalid answer option"
  ELSE IF now - sv.currentPoll.startTime > sv.currentPoll.duration * MsPerSec
    THEN "Poll has expired"
  ELSE ""

\* socket.on("submit_answer", (answer) => ...) of server.js
server_submit_answer(sv, c, answer) ==
  Then(server_AnswerError(sv, c, answer), LAMBDA err :
    IF err # ""
      THEN Emit(sv, ToSocket(c, "answer_error", [message |-> err]))
      ELSE
        Then([sv EXCEPT !.students = MarkAnswered(@, c),
                        !.heap[sv.pollResults] = Increment(@, answer)], LAMBDA sv1 :
        Then(Emit(sv1, ToSocket(c, "answer_submitted",
                                [answer |-> answer,
                                 results |-> sv1.heap[sv1.pollResults]])), LAMBDA sv2 :
        Then(Emit(sv2, ToAll("live_results",
                             [results |-> sv2.heap[sv2.pollResults],
                              totalStudents |-> StudentCount(sv2.students),
                              answeredStudents |-> AnsweredCount(sv2.students)])),
             LAMBDA sv3 :
          IF AllAnswered(sv3.students) /\ StudentCount(sv3.students) > 0
            THEN server_endPoll(sv3)
            ELSE sv3))))

\* socket.on("teacher_end_poll", () => ...) of server.js
server_teacher_end_poll(sv, c) ==
  IF sv.currentPoll # Null
    THEN Emit(server_endPoll(sv), ToSocket(c, "poll_ended_by_teacher", [n |-> 0]))
    ELSE Emit(sv, ToSocket(c, "no_active_poll", [n |-> 0]))

\* the callback of the poll timer of server.js: () => { endPoll(); }
server_timer(sv, t) == server_endPoll([sv EXCEPT !.timers = @ \ {t}])

\* socket.on("disconnect", () => ...) of server.js
server_disconnect(sv, c) ==
  IF HasStudent(sv.students, c)
    THEN Emit([sv EXCEPT !.students = DeleteStudent(@, c)],
              ToAll("student_count_update",
                    [count |-> StudentCount(sv.students) - 1]))
    ELSE sv

\* Both variants on the same events: students that join under names that
\* collide, join again and leave, polls, answers, the timer and the clock.
PairNames == {Sp \o Str_S, Str_B, Sp}
PairEvents ==
  {"join_student", "teacher_start_poll", "submit_answer", "teacher_end_poll",
   "timer", "disconnect"}

NextPair ==
  \/ \E c \in Conns, name \in PairNames : JoinStudent(c, name)
  \/ \E pollData \in PollInputs : TeacherStartPoll(Teacher, pollData)
  \/ \E c \in Conns, answer \in Answers : SubmitAnswer(c, answer)
  \/ TeacherEndPoll(Teacher)
  \/ \E c \in Conns : Disconnect(c)
  \/ TimerFire
  \/ Tick

SpecPair == Init /\ [][NextPair]_vars

(* ------------------------------ properties ----------------------------- *)
\* the tally the variable pollResults refers to
Tally == heap[pollResults]

NumAnswered(sts) == Cardinality({i \in 1..Len(sts) : sts[i].answered})
NumUnanswered(sts) == Cardinality({i \in 1..Len(sts) : ~sts[i].answered})
NoDup(s) == \A i, j \in 1..Len(s) : i # j => s[i] # s[j]
HistoryIds == [i \in 1..Len(pastPolls) |-> pastPolls[i].id]
Emitted(es, ev) == {i \in 1..Len(es) : es[i].ev = ev}
Accepted == last.ev = "submit_answer" /\ emits # <<>> /\ emits[1].ev = "answer_submitted"
Started == last.ev = "teacher_start_poll" /\ emits # <<>> /\ emits[1].ev = "new_question"
EngineUnchanged ==
  UNCHANGED <<currentPoll, pollResults, heap, students, pastPolls, pollTimeout,
              timers, pollEnded>>

\* C1: while a poll is active, every socket has at most one answer accepted
\* and tallied for it: the tally sums to no more than the number of sockets
\* that had an answer accepted.
C1_OneAnswerPerSocket ==
  currentPoll # Null => TallySum(Tally) <= Cardinality({v[1] : v \in voted})

\* a poll definition with a non-empty question and at least 2 options
WellFormed(pollData) == pollData.question # <<>> /\ Len(pollData.options) >= 2

\* C2: a well-formed teacher_start_poll is rejected, with the number n of
\* unanswered participants and no change of state, exactly when a poll is
\* active and n > 0; otherwise it installs the new poll.
C2_StartConflict ==
  [][(last'.ev = "teacher_start_poll" /\ WellFormed(last'.arg)) =>
       LET n == NumUnanswered(students)
       IN IF currentPoll # Null /\ n > 0
            THEN /\ emits' = <<ToSocket(last'.conn, "poll_error",
                                        [kind |-> "conflict", n |-> n])>>
                 /\ EngineUnchanged
            ELSE /\ Emitted(emits', "poll_error") = {}
                 /\ Emitted(emits', "poll_started") # {}
                 /\ currentPoll' # Null
                 /\ currentPoll' # currentPoll
                 /\ currentPoll'.question = trim(last'.arg.question)
                 /\ currentPoll'.startTime = now]_vars

C2_Witness ==
  /\ last.ev = "teacher_start_poll"
  /\ emits[1].ev = "poll_error"
  /\ emits[1].data.kind = "conflict"
  /\ emits[1].data.n = 1
  /\ Len(students) = 2

\* C3: every started poll yields at most one history record and at most one
\* poll_ended broadcast, and a completion attempt made when no poll is active
\* appends nothing, broadcasts nothing and changes no state.
C3_CompleteOnce ==
  [][/\ NoDup([i \in 1..Len(pastPolls') |-> pastPolls'[i].id])
     /\ NoDup(pollEnded')
     /\ Len(pastPolls') <= Len(pastPolls) + 1
     /\ Cardinality(Emitted(emits', "poll_ended")) = Len(pollEnded') - Len(pollEnded)
     /\ Cardinality(Emitted(emits', "poll_ended")) <= 1
     /\ (currentPoll' # Null =>
           \A i \in 1..Len(pastPolls') : pastPolls'[i].id # currentPoll'.id)
     /\ (currentPoll = Null /\ last'.ev \in {"teacher_end_poll", "timer"} =>
           EngineUnchanged)]_vars

C3_Witness ==
  /\ last.ev = "teacher_end_poll"
  /\ emits[1].ev = "no_active_poll"
  /\ Len(pollEnded) = 1
  /\ Len(pastPolls) = 1

\* C4: a teacher_start_poll that succeeds while a poll P is active appends P
\* to history with its tally and the participant counts of that moment and
\* cancels P's timer; no poll ever stops being the active poll without a
\* history record for it.
C4_ArchiveBeforeNext ==
  [][(currentPoll # Null /\ currentPoll' # currentPoll) =>
       /\ \E i \in 1..Len(pastPolls') : pastPolls'[i].id = currentPoll.id
       /\ (last'.ev = "teacher_start_poll" =>
             /\ PastPollsView' =
                  Append(PastPollsView,
                         [id |-> currentPoll.id,
                          question |-> currentPoll.question,
                          options |-> currentPoll.options,
                          duration |-> currentPoll.duration,
                          startTime |-> currentPoll.startTime,
                          results |-> Tally,
                          endTime |-> now,
                          totalStudents |-> Len(students),
                          answeredStudents |-> NumAnswered(students)])
             /\ \A t \in timers' : t.id # currentPoll.id
             /\ pollTimeout' = currentPoll'.id)]_vars

C4_Witness ==
  /\ Started
  /\ Len(pastPolls) = 1
  /\ pollEnded = <<>>
  /\ TallySum(heap[pastPolls[1].results]) = 1
  /\ pastPolls[1].totalStudents = 1

IsActive(k) == currentPoll # Null /\ currentPoll.id = k
InHistory(k) == \E i \in 1..Len(pastPolls) : pastPolls[i].id = k

\* C5: if the armed timer eventually fires, every poll that becomes active
\* eventually stops being the active poll and has a record in history,
\* whatever the participants and the teacher do or fail to do.
C5_EventuallyArchived ==
  \A k \in 1..MaxPolls : IsActive(k) ~> (~IsActive(k) /\ InHistory(k))

C5_Witness ==
  /\ last.ev = "timer"
  /\ Len(pastPolls) = 1
  /\ pastPolls[1].totalStudents = 2
  /\ pastPolls[1].answeredStudents = 0

\* C6: when a submit_answer is accepted from the last participant who had not
\* answered, the same step broadcasts poll_ended once, leaves no active poll
\* (server_status reports activePoll null), cancels the timer and appends
\* exactly one record, of that poll, with answeredStudents = totalStudents.
C6_LastAnswerEnds ==
  [][(/\ last'.ev = "submit_answer"
      /\ emits' # <<>>
      /\ emits'[1].ev = "answer_submitted"
      /\ \A i \in 1..Len(students) :
           students[i].id # last'.conn => students[i].answered) =>
       /\ Cardinality(Emitted(emits', "poll_ended")) = 1
       /\ currentPoll' = Null
       /\ ServerStatus'.activePoll = Null
       /\ \A t \in timers' : t.id # currentPoll.id
       /\ Len(pastPolls') = Len(pastPolls) + 1
       /\ SubSeq(pastPolls', 1, Len(pastPolls)) = pastPolls
       /\ pastPolls'[Len(pastPolls')].id = currentPoll.id
       /\ pastPolls'[Len(pastPolls')].totalStudents = Len(students)
       /\ pastPolls'[Len(pastPolls')].answeredStudents =
            pastPolls'[Len(pastPolls')].totalStudents]_vars

C6_Witness ==
  /\ Accepted
  /\ Emitted(emits, "poll_ended") # {}
  /\ currentPoll = Null
  /\ Len(students) = 2
  /\ pastPolls[Len(pastPolls)].answeredStudents = 2

\* the answers accepted so far, counted per option
Counts(vs, opts) == [o \in opts |-> Cardinality({v \in vs : v[2] = o})]

\* C7: with a roster that does not change while the poll is active, after
\* every accepted submit_answer the tally sent out counts, per option, exactly
\* the answers accepted so far; the poll ends on the submit of the last
\* participant and not before, and that step appends exactly one record whose
\* results are those counts.
C7_StableTally ==
  [][(/\ last'.ev = "submit_answer"
      /\ emits' # <<>>
      /\ emits'[1].ev = "answer_submitted") =>
       LET all == voted \cup {<<last'.conn, last'.arg>>}
           counts == Counts(all, Range(currentPoll.options))
       IN /\ emits'[1].data.results = counts
          /\ \E i \in Emitted(emits', "live_results") :
               /\ emits'[i].data.results = counts
               /\ emits'[i].data.answeredStudents = Cardinality(all)
               /\ emits'[i].data.totalStudents = Len(students)
          /\ IF Cardinality(all) = Len(students)
               THEN /\ \E i \in Emitted(emits', "poll_ended") :
                         emits'[i].data.results = counts
                    /\ currentPoll' = Null
                    /\ Len(pastPolls') = Len(pastPolls) + 1
                    /\ SubSeq(PastPollsView', 1, Len(pastPolls)) = PastPollsView
                    /\ PastPollsView'[Len(pastPolls')].results = counts
                    /\ PastPollsView'[Len(pastPolls')].id = currentPoll.id
               ELSE /\ Emitted(emits', "poll_ended") = {}
                    /\ currentPoll' = currentPoll
                    /\ pastPolls' = pastPolls
                    /\ heap'[pollResults'] = counts]_vars

C7_Witness ==
  /\ Accepted
  /\ Emitted(emits, "poll_ended") # {}
  /\ Len(students) = 2
  /\ heap[pastPolls[Len(pastPolls)].results] = [o \in {Str_A, Str_B} |-> 1]

\* C8: right after a teacher_start_poll that succeeds, the tally maps every
\* (trimmed) option of the new poll to 0 and has no other key, whatever was
\* counted before, and every registered participant has answered = false.
C8_FreshTally ==
  [][(/\ last'.ev = "teacher_start_poll"
      /\ Emitted(emits', "poll_started") # {}) =>
       /\ currentPoll' # Null
       /\ currentPoll'.options = SeqMap(trim, last'.arg.options)
       /\ heap'[pollResults'] = [o \in Range(currentPoll'.options) |-> 0]
       /\ Len(students') = Len(students)
       /\ \A i \in 1..Len(students') : ~students'[i].answered]_vars

C8_Witness ==
  /\ Started
  /\ pollSeq = 2
  /\ Len(pastPolls) = 1
  /\ TallySum(heap[pastPolls[1].results]) >= 1
  /\ pastPolls[1].answeredStudents >= 1
  /\ pollEnded = <<>>
  /\ Len(students) >= 1
  /\ TallySum(Tally) = 0

\* the names first joins as N are said to get: N, N (2), N (3), ...
NthName(N, j) == IF j = 1 THEN N ELSE Suffixed(N, j)

\* a participant whose name is the one its first join gave it
FirstJoined(s) ==
  \/ s.name = s.originalName
  \/ \E k \in 2..(MaxConns + 2) : s.name = Suffixed(s.originalName, k)

\* the name rule alone: N if free, else "N (k)" for the smallest k >= 2 that
\* is free, and in either case a name nobody else has
UniqueNameRule ==
  [][(/\ last'.ev = "join_student"
      /\ trim(last'.arg) # <<>>
      /\ ~HasStudent(students, last'.conn)) =>
       LET N == trim(last'.arg)
           names == {students[i].name : i \in 1..Len(students)}
           me == students'[Len(students')]
       IN /\ Len(students') = Len(students) + 1
          /\ me.id = last'.conn
          /\ me.name \notin names
          /\ IF N \notin names
               THEN me.name = N
               ELSE \E k \in 2..(Len(students) + 1) :
                      /\ me.name = Suffixed(N, k)
                      /\ \A j \in 2..(k - 1) : Suffixed(N, j) \in names]_vars

\* C9: a first join asking for N gets N if no participant has that name, and
\* otherwise "N (k)" for the smallest k >= 2 that is free, a name nobody else
\* has; and the j-th of the participants that joined as S gets the j-th of
\* S, S (2), S (3), whatever names the other participants joined with.
C9_UniqueNames ==
  [][(/\ last'.ev = "join_student"
      /\ trim(last'.arg) # <<>>
      /\ ~HasStudent(students, last'.conn)) =>
       LET N == trim(last'.arg)
           names == {students[i].name : i \in 1..Len(students)}
           me == students'[Len(students')]
           sams == {i \in 1..Len(students) : students[i].originalName = N}
           n == Cardinality(sams)
       IN /\ me.name \notin names
          /\ IF N \notin names
               THEN me.name = N
               ELSE \E k \in 2..(Len(students) + 1) :
                      /\ me.name = Suffixed(N, k)
                      /\ \A j \in 2..(k - 1) : Suffixed(N, j) \in names
          /\ ((N = Str_S /\ (\A i \in 1..Len(students) : FirstJoined(students[i])) /\
                ({students[i].name : i \in sams} = {NthName(N, j) : j \in 1..n})) =>
                me.name = NthName(N, n + 1))]_vars

\* C10: history is append-only and immutable: every step leaves the records
\* already there as they were, results and counts included, and adds new
\* ones at the end only, so that records are in completion order.
C10_HistoryAppendOnly ==
  [][/\ Len(pastPolls) <= Len(pastPolls')
     /\ SubSeq(PastPollsView', 1, Len(pastPolls)) = PastPollsView
     /\ \A i, j \in 1..Len(pastPolls') :
          i < j => /\ pastPolls'[i].id < pastPolls'[j].id
                   /\ pastPolls'[i].endTime <= pastPolls'[j].endTime]_vars

C10_Witness ==
  /\ last.ev = "disconnect"
  /\ Len(pastPolls) = 2
  /\ TallySum(heap[pastPolls[1].results]) >= 1
  /\ pastPolls[1].answeredStudents >= 1
  /\ pastPolls[2].totalStudents >= 1

\* a session's message log and participant list, empty while the session
\* does not exist
LogOf(cm, s) == IF s \in DOMAIN cm THEN cm[s] ELSE <<>>
ListOf(cp, s) == IF s \in DOMAIN cp THEN cp[s] ELSE <<>>
IsPrefix(a, b) == Len(a) <= Len(b) /\ SubSeq(b, 1, Len(a)) = a
Listed(cp, s, c) == \E i \in 1..Len(ListOf(cp, s)) : ListOf(cp, s)[i].id = c

\* C11: every session's message log only grows at its end, a send-message
\* adding the message sent as the last one; join-chat replays to the joiner
\* exactly the log of the session so far, oldest first; after the join the
\* participant list is the previous list followed by the joiner if no listed
\* member has the joiner's name, and the previous list otherwise.
C11_ChatLogAndJoin ==
  [][\A s \in Sessions :
       /\ IsPrefix(LogOf(chatMessages, s), LogOf(chatMessages', s))
       /\ (last'.ev = "send-message" /\ last'.arg.sessionId = s =>
             /\ Len(chatMessages'[s]) = Len(LogOf(chatMessages, s)) + 1
             /\ chatMessages'[s][Len(chatMessages'[s])].user = last'.arg.user
             /\ chatMessages'[s][Len(chatMessages'[s])].message = last'.arg.message)
       /\ (last'.ev = "join-chat" /\ last'.arg.sessionId = s =>
             /\ emits'[1] = ToSocket(last'.conn, "chat-history",
                                     [list |-> LogOf(chatMessages, s)])
             /\ chatMessages'[s] = LogOf(chatMessages, s)
             /\ chatParticipants'[s] =
                  IF HasName(ListOf(chatParticipants, s), last'.arg.user)
                    THEN ListOf(chatParticipants, s)
                    ELSE Append(ListOf(chatParticipants, s),
                                [id |-> last'.conn, name |-> last'.arg.user,
                                 joinedAt |-> now]))]_vars

\* C11 as stated: after every join-chat the participant list is the previous
\* list followed by the joiner.
C11_JoinAlwaysAppends ==
  [][\A s \in Sessions :
       (last'.ev = "join-chat" /\ last'.arg.sessionId = s =>
          chatParticipants'[s] =
            Append(ListOf(chatParticipants, s),
                   [id |-> last'.conn, name |-> last'.arg.user,
                    joinedAt |-> now]))]_vars

C11_Witness ==
  /\ last.ev = "join-chat"
  /\ emits[1].ev = "chat-history"
  /\ Len(emits[1].data.list) = 2
  /\ emits[1].data.list[1].user = "Ann"
  /\ emits[1].data.list[2].user = "Bob"
  /\ Len(chatParticipants[last.arg.sessionId]) = 2
  /\ chatParticipants[last.arg.sessionId][2].id = last.conn

\* C12: a leave-chat for session s from a connection that is not listed in s
\* changes no participant list and no message log, and a participants-updated
\* it causes carries the list as it was; after any leave-chat the connection
\* is neither listed in s nor in its room, so that a second leave-chat
\* changes nothing more.
C12_LeaveIdempotent ==
  [][last'.ev = "leave-chat" =>
       /\ ~Listed(chatParticipants', last'.arg.sessionId, last'.conn)
       /\ last'.conn \notin rooms'[last'.arg.sessionId]
       /\ chatMessages' = chatMessages
       /\ \A s \in Sessions \ {last'.arg.sessionId} :
            /\ ListOf(chatParticipants', s) = ListOf(chatParticipants, s)
            /\ rooms'[s] = rooms[s]
       /\ (~Listed(chatParticipants, last'.arg.sessionId, last'.conn) =>
             /\ chatParticipants' = chatParticipants
             /\ \A i \in Emitted(emits', "participants-updated") :
                  emits'[i].data.list = chatParticipants[last'.arg.sessionId])]_vars

C12_Witness ==
  /\ last.ev = "leave-chat"
  /\ Emitted(emits, "participants-updated") # {}
  /\ Len(chatParticipants[last.arg.sessionId]) = 2
  /\ Len(LogOf(chatMessages, last.arg.sessionId)) >= 1
  /\ emits[1].data.list = chatParticipants[last.arg.sessionId]

\* what a submit_answer from socket c finds, read off the state
Joined(c) == \E i \in 1..Len(students) : students[i].id = c
HasAnswered(c) == \E i \in 1..Len(students) : students[i].id = c /\ students[i].answered
IsOption(answer) ==
  \E i \in 1..Len(currentPoll.options) : currentPoll.options[i] = answer
Elapsed == now - currentPoll.startTime
Limit == currentPoll.duration * MsPerSec

\* the rejection a submit_answer is to meet, by precedence; "" for none
Rejection(c, answer) ==
  IF currentPoll = Null THEN "No active poll"
  ELSE IF ~Joined(c) THEN "Please join as a student first"
  ELSE IF HasAnswered(c) THEN "You have already answered this poll"
  ELSE IF ~IsOption(answer) THEN "Invalid answer option"
  ELSE IF Elapsed > Limit THEN "Poll has expired"
  ELSE ""

\* C13: a submit_answer is rejected for, in this order of precedence, no
\* active poll, no participant, already answered, invalid option, expired;
\* a rejected submit emits one answer_error to the submitter only and leaves
\* poll, tally, participants, timer and history unchanged; a submit that
\* meets none of these is not rejected.
C13_RejectionOrder ==
  [][last'.ev = "submit_answer" =>
       IF Rejection(last'.conn, last'.arg) # ""
         THEN /\ emits' = <<ToSocket(last'.conn, "answer_error",
                                     [message |-> Rejection(last'.conn, last'.arg)])>>
              /\ EngineUnchanged
         ELSE /\ emits'[1].ev = "answer_submitted"
              /\ emits'[1].to = last'.conn]_vars

C13_Witness ==
  /\ last.ev = "submit_answer"
  /\ emits[1].ev = "answer_error"
  /\ emits[1].data.message = "You have already answered this poll"
  /\ currentPoll # Null
  /\ ~IsOption(last.arg)
  /\ Elapsed > Limit

\* C14: a teacher_start_poll whose question is empty or whose options hold
\* fewer than 2 distinct values once trimmed fails with the validation error
\* and changes nothing; the active poll always has a non-empty question and
\* at least 2 pairwise distinct options.
C14_ValidatedPoll ==
  [][/\ (/\ last'.ev = "teacher_start_poll"
          /\ \/ last'.arg.question = <<>>
             \/ Cardinality(Range(SeqMap(trim, last'.arg.options))) < 2) =>
           /\ emits' = <<ToSocket(last'.conn, "poll_error",
                                  [kind |-> "invalid", n |-> 0])>>
           /\ EngineUnchanged
     /\ currentPoll' # Null =>
           /\ currentPoll'.question # <<>>
           /\ Len(currentPoll'.options) >= 2
           /\ NoDup(currentPoll'.options)]_vars

\* C15: a step that leaves no poll active, whether by the last answer, the
\* timer or teacher_end_poll, broadcasts poll_ended with the question, the
\* options and the final tally of the poll; the timer and teacher_end_poll
\* always end the active poll; while no poll is active get_status reports
\* activePoll null and get_current_results answers no_active_poll, and only a
\* teacher_start_poll makes a poll active again.
C15_EndedBeforeIdle ==
  [][/\ (currentPoll # Null /\ currentPoll' = Null) =>
           /\ last'.ev \in {"submit_answer", "timer", "teacher_end_poll"}
           /\ \E i \in Emitted(emits', "poll_ended") :
                emits'[i].data =
                  [results |-> PastPollsView'[Len(pastPolls')].results,
                   question |-> currentPoll.question,
                   options |-> currentPoll.options]
           /\ pastPolls'[Len(pastPolls')].id = currentPoll.id
     /\ (currentPoll # Null /\ last'.ev \in {"timer", "teacher_end_poll"}) =>
           currentPoll' = Null
     /\ (currentPoll = Null /\ last'.ev = "get_status") =>
           emits'[1].data.activePoll = Null
     /\ (currentPoll = Null /\ last'.ev = "get_current_results") =>
           emits' = <<ToSocket(last'.conn, "no_active_poll", [n |-> 0])>>
     /\ (currentPoll = Null /\ currentPoll' # Null) =>
           last'.ev = "teacher_start_poll"]_vars

C15_Witness ==
  /\ last.ev = "get_current_results"
  /\ emits[1].ev = "no_active_poll"
  /\ pollEnded = <<1>>
  /\ pastPolls[1].answeredStudents = 1
  /\ pastPolls[1].totalStudents = 2

\* the last answer: an accepted submit_answer after which every registered
\* participant has answered
LastAnswerStep ==
  /\ last'.ev = "submit_answer"
  /\ emits' # <<>>
  /\ emits'[1].ev = "answer_submitted"
  /\ Len(students) >= 1
  /\ \A i \in 1..Len(students) :
       students[i].id # last'.conn => students[i].answered

TimerOfActivePoll ==
  /\ (timers # {}) <=> (currentPoll # Null)
  /\ Cardinality(timers) <= 1
  /\ \A t \in timers :
       /\ t.id = currentPoll.id
       /\ t.due = currentPoll.startTime + currentPoll.duration * MsPerSec
       /\ pollTimeout = t.id

\* C17: between handlers a timer is armed if and only if a poll is active,
\* at most one timer is armed, and it is the one the start of the active poll
\* armed; a timer that fires ends the poll it was armed for and no other.
C17_OneTimer ==
  [][/\ TimerOfActivePoll
     /\ TimerOfActivePoll'
     /\ last'.ev = "timer" =>
           /\ currentPoll # Null
           /\ currentPoll' = Null
           /\ timers' = {}
           /\ pollEnded' = Append(pollEnded, currentPoll.id)
           /\ now >= currentPoll.startTime + currentPoll.duration * MsPerSec]_vars

C17_Witness ==
  /\ currentPoll # Null
  /\ currentPoll.id = 2
  /\ pollEnded = <<1>>
  /\ now = MaxNow
  /\ timers = {[id |-> 2, due |-> pastPolls[1].startTime + pastPolls[1].duration * MsPerSec]}

\* C18: a submit_answer that passes the other guards when more than the
\* duration has elapsed since the start is answered "Poll has expired" and
\* changes nothing, although the poll is still active, its timer not having
\* fired; an answer is accepted only when no more than the duration has
\* elapsed, and when exactly the duration has elapsed it is not rejected.
C18_ExpiryCheck ==
  [][(/\ last'.ev = "submit_answer"
      /\ currentPoll # Null
      /\ Joined(last'.conn)
      /\ ~HasAnswered(last'.conn)
      /\ IsOption(last'.arg)) =>
       IF Elapsed > Limit
         THEN /\ emits' = <<ToSocket(last'.conn, "answer_error",
                                     [message |-> "Poll has expired"])>>
              /\ EngineUnchanged
              /\ currentPoll' # Null
         ELSE /\ emits'[1].ev = "answer_submitted"
              /\ TallySum(emits'[1].data.results) = TallySum(Tally) + 1]_vars

C18_Witness ==
  /\ last.ev = "submit_answer"
  /\ emits[1].ev = "answer_error"
  /\ emits[1].data.message = "Poll has expired"
  /\ currentPoll # Null
  /\ timers # {}
  /\ IsOption(last.arg)
  /\ TallySum(Tally) = 1

\* an answer accepted when exactly the duration has elapsed
AcceptedAtLimit ==
  /\ Accepted
  /\ currentPoll # Null
  /\ Elapsed = Limit
  /\ now > 0

\* C19: a join_student from a socket that has a participant keeps the roster
\* size and every other participant, sets the name and the originalName of
\* its participant to the trimmed name asked for, as it is, even if another
\* participant has that name, and sets answered to false.
C19_RejoinInPlace ==
  [][(/\ last'.ev = "join_student"
      /\ trim(last'.arg) # <<>>
      /\ Joined(last'.conn)) =>
       /\ Len(students') = Len(students)
       /\ \A i \in 1..Len(students) :
            IF students[i].id = last'.conn
              THEN students'[i] = [id |-> last'.conn,
                                   name |-> trim(last'.arg),
                                   originalName |-> trim(last'.arg),
                                   answered |-> FALSE]
              ELSE students'[i] = students[i]]_vars

\* the roster without its entry at position k
Without(sts, k) == SubSeq(sts, 1, k - 1) \o SubSeq(sts, k + 1, Len(sts))

\* poll, tally, timer and history are as they were
PollUnchanged ==
  UNCHANGED <<currentPoll, pollResults, heap, pastPolls, pollTimeout, timers,
              pollEnded>>

\* C20: kick_student(name) removes the first participant of that name and
\* no other, sends kicked to its socket and shrinks the roster by one; with
\* no participant of that name it sends kick_error to the requester and
\* changes nothing; a disconnect of a socket without participant leaves the
\* roster as it is; in each case poll, tally, timer and history are unchanged.
C20_KickFrame ==
  [][/\ last'.ev = "kick_student" =>
           LET hits == {i \in 1..Len(students) : students[i].name = last'.arg}
               first == CHOOSE i \in hits : \A j \in hits : i <= j
           IN /\ PollUnchanged
              /\ IF hits # {}
                   THEN /\ students' = Without(students, first)
                        /\ Len(students') = Len(students) - 1
                        /\ emits'[1] = ToSocket(students[first].id, "kicked", [n |-> 0])
                        /\ Emitted(emits', "kick_error") = {}
                   ELSE /\ students' = students
                        /\ emits' = <<ToSocket(last'.conn, "kick_error", [n |-> 0])>>
     /\ last'.ev = "disconnect" =>
           /\ PollUnchanged
           /\ IF Joined(last'.conn)
                THEN \E k \in 1..Len(students) :
                       /\ students[k].id = last'.conn
                       /\ students' = Without(students, k)
                ELSE students' = students]_vars

C20_Witness ==
  /\ last.ev = "kick_student"
  /\ emits[1].ev = "kicked"
  /\ Len(students) = 1
  /\ students[1].name = last.arg
  /\ ~students[1].answered
  /\ currentPoll # Null
  /\ TallySum(Tally) = 1

\* the names of a participant list, in list order
NamesOf(list) == [i \in 1..Len(list) |-> list[i].name]
DistinctNames(cp) == \A s \in DOMAIN cp : NoDup(NamesOf(cp[s]))

\* C21: join-chat appends an entry for the joining socket and the name given
\* if and only if no entry of the session has that name; otherwise it leaves
\* the list as it is, the socket stored for that name included; the names of
\* every session's list are pairwise distinct.
C21_JoinDedupByName ==
  [][/\ DistinctNames(chatParticipants)
     /\ DistinctNames(chatParticipants')
     /\ last'.ev = "join-chat" =>
           LET list == ListOf(chatParticipants, last'.arg.sessionId)
           IN IF \E i \in 1..Len(list) : list[i].name = last'.arg.user
                THEN chatParticipants'[last'.arg.sessionId] = list
                ELSE /\ Len(chatParticipants'[last'.arg.sessionId]) = Len(list) + 1
                     /\ SubSeq(chatParticipants'[last'.arg.sessionId], 1, Len(list)) = list
                     /\ chatParticipants'[last'.arg.sessionId][Len(list) + 1].id = last'.conn
                     /\ chatParticipants'[last'.arg.sessionId][Len(list) + 1].name =
                          last'.arg.user]_vars

C21_Witness ==
  /\ last.ev = "join-chat"
  /\ Len(chatParticipants[last.arg.sessionId]) = 1
  /\ chatParticipants[last.arg.sessionId][1].name = last.arg.user
  /\ chatParticipants[last.arg.sessionId][1].id # last.conn
  /\ last.conn \in rooms[last.arg.sessionId]

\* C22: after the disconnect of a socket no session's participant list has
\* an entry of that socket and the roster has no participant of it; every
\* session whose list changed gets participants-updated with the new list.
C22_DisconnectCleans ==
  [][last'.ev = "disconnect" =>
       /\ \A s \in Sessions : ~Listed(chatParticipants', s, last'.conn)
       /\ \A i \in 1..Len(students') : students'[i].id # last'.conn
       /\ \A s \in DOMAIN chatParticipants :
            chatParticipants'[s] # chatParticipants[s] =>
              \E i \in Emitted(emits', "participants-updated") :
                emits'[i].data.list = chatParticipants'[s]]_vars

\* C23: kick-user for a name some entry of the session has removes the first
\* such entry and no other, sends user-kicked to the socket stored in it and
\* participants-updated with the new list to the room; for a session that
\* does not exist or a name no entry has it changes nothing and emits
\* nothing; the message logs are unchanged in both cases.
C23_KickUser ==
  [][last'.ev = "kick-user" =>
       LET s == last'.arg.sessionId
           list == ListOf(chatParticipants, s)
           hits == {i \in 1..Len(list) : list[i].name = last'.arg.userName}
           first == CHOOSE i \in hits : \A j \in hits : i <= j
       IN /\ chatMessages' = chatMessages
          /\ rooms' = rooms
          /\ IF hits # {}
               THEN /\ chatParticipants' =
                         [chatParticipants EXCEPT ![s] = Without(list, first)]
                    /\ emits' = <<ToSockets({list[first].id} \cap connected, "user-kicked",
                                            [userName |-> last'.arg.userName]),
                                  ToSockets(rooms[s], "participants-updated",
                                            [list |-> Without(list, first)])>>
               ELSE /\ chatParticipants' = chatParticipants
                    /\ emits' = <<>>]_vars

C23_Witness ==
  /\ last.ev = "kick-user"
  /\ emits # <<>>
  /\ emits[1].ev = "user-kicked"
  /\ emits[1].to # {}
  /\ Len(chatParticipants[last.arg.sessionId]) = 1
  /\ Len(LogOf(chatMessages, last.arg.sessionId)) >= 1

ChatEvents == {"join-chat", "send-message", "kick-user", "leave-chat"}
PollEvents ==
  {"join_student", "teacher_start_poll", "submit_answer", "teacher_end_poll",
   "kick_student", "timer", "get_status", "get_current_results", "get_students",
   "get_past_polls"}

\* C24: a chat event for session s changes neither the log nor the list of
\* another session, nor the roster, the poll, the tally, the timer or the
\* history; a poll or roster event, or a query, changes no chat state; only a
\* disconnect changes both the roster and chat state.
C24_Frame ==
  [][/\ last'.ev \in ChatEvents =>
           /\ UNCHANGED <<students, currentPoll, pollResults, heap, pastPolls,
                          pollTimeout, timers>>
           /\ \A s \in Sessions \ {last'.arg.sessionId} :
                /\ (s \in DOMAIN chatMessages') <=> (s \in DOMAIN chatMessages)
                /\ (s \in DOMAIN chatParticipants') <=> (s \in DOMAIN chatParticipants)
                /\ LogOf(chatMessages', s) = LogOf(chatMessages, s)
                /\ ListOf(chatParticipants', s) = ListOf(chatParticipants, s)
     /\ last'.ev \in PollEvents => UNCHANGED <<chatMessages, chatParticipants, rooms>>
     /\ (/\ students' # students
         /\ <<chatMessages', chatParticipants'>> # <<chatMessages, chatParticipants>>) =>
           last'.ev = "disconnect"]_vars

C24_Witness ==
  /\ last.ev = "disconnect"
  /\ Emitted(emits, "student_count_update") # {}
  /\ Emitted(emits, "participants-updated") # {}
  /\ currentPoll # Null
  /\ \E s \in DOMAIN chatMessages : Len(chatMessages[s]) >= 1

\* C25: while a poll is active and a participant is registered, some
\* registered participant has not answered.
C25_SomeoneUnanswered ==
  (currentPoll # Null /\ Len(students) >= 1) =>
    \E i \in 1..Len(students) : ~students[i].answered

\* C26: while a poll is active the tally counts sum to the number of
\* registered participants that have answered, and in every history record
\* the results sum to answeredStudents, which is at most totalStudents.
C26_TallyMatchesAnswered ==
  /\ currentPoll # Null => TallySum(Tally) = NumAnswered(students)
  /\ \A i \in 1..Len(pastPolls) :
       /\ TallySum(heap[pastPolls[i].results]) = pastPolls[i].answeredStudents
       /\ pastPolls[i].answeredStudents <= pastPolls[i].totalStudents

\* C27: the number of poll_ended broadcasts emitted so far equals the
\* length of the history.
C27_EndedPerRecord == Len(pollEnded) = Len(pastPolls)

\* the entries of session s's list that the step removes
RemovedEntries(s) ==
  Range(ListOf(chatParticipants, s)) \ Range(ListOf(chatParticipants', s))

\* C28: a kick-user that removes an entry of session s takes the connection
\* stored in it out of the recipients of the later broadcasts of room s, and
\* a leave-chat takes the leaving connection out of them.
C28_RemovedLeavesRoom ==
  [][/\ last'.ev = "kick-user" =>
          \A p \in RemovedEntries(last'.arg.sessionId) :
            p.id \notin rooms'[last'.arg.sessionId]
     /\ last'.ev = "leave-chat" =>
          last'.conn \notin rooms'[last'.arg.sessionId]]_vars

\* C29: a send-message appends to the log of session s only when the sending
\* connection is listed in s under the user name of the message.
C29_SenderListed ==
  [][(/\ last'.ev = "send-message"
      /\ LogOf(chatMessages', last'.arg.sessionId)
           # LogOf(chatMessages, last'.arg.sessionId)) =>
        \E i \in 1..Len(ListOf(chatParticipants, last'.arg.sessionId)) :
          /\ ListOf(chatParticipants, last'.arg.sessionId)[i].id = last'.conn
          /\ ListOf(chatParticipants, last'.arg.sessionId)[i].name = last'.arg.user]_vars

\* the shape of the tally and of the answered flags in a state
TallyShape ==
  IF currentPoll = Null
    THEN /\ Tally = <<>>
         /\ \A i \in 1..Len(students) : ~students[i].answered
    ELSE /\ DOMAIN Tally = Range(currentPoll.options)
         /\ \A o \in DOMAIN Tally : Tally[o] \in Nat

\* the step stays within one poll
SamePoll ==
  /\ currentPoll # Null
  /\ currentPoll' # Null
  /\ currentPoll'.id = currentPoll.id

\* C30: while no poll is active the tally is empty and no registered
\* participant has answered; while a poll is active the keys of the tally are
\* the options of the poll and every count is a natural number that no step
\* of that poll decreases.
C30_StateShape ==
  /\ []TallyShape
  /\ [][SamePoll =>
          /\ DOMAIN heap'[pollResults'] = DOMAIN Tally
          /\ \A o \in DOMAIN Tally : heap'[pollResults'][o] >= Tally[o]]_vars

C30_Witness ==
  /\ currentPoll # Null
  /\ Len(pastPolls) >= 1
  /\ Len(students) >= 1
  /\ \E o \in DOMAIN Tally : Tally[o] >= 1
  /\ \E o \in DOMAIN Tally : Tally[o] = 0

\* the roster as server.js holds it: no originalName
ServerStudents(sts) ==
  [i \in 1..Len(sts) |->
     [id |-> sts[i].id, name |-> sts[i].name, answered |-> sts[i].answered]]

\* the state server.js holds when it agrees with the state of part_000
ServerState == [Cur EXCEPT !.students = ServerStudents(students)]

\* what server.js makes of the state sv on the event e
ServerSteps(sv, e) ==
  IF e.ev = "join_student" THEN {server_join_student(sv, e.conn, e.arg)}
  ELSE IF e.ev = "teacher_start_poll"
    THEN {server_teacher_start_poll(sv, e.conn, e.arg)}
  ELSE IF e.ev = "submit_answer" THEN {server_submit_answer(sv, e.conn, e.arg)}
  ELSE IF e.ev = "teacher_end_poll" THEN {server_teacher_end_poll(sv, e.conn)}
  ELSE IF e.ev = "timer"
    THEN {server_timer(sv, t) : t \in {u \in sv.timers : now >= u.due}}
  ELSE IF e.ev = "disconnect" THEN {server_disconnect(sv, e.conn)}
  ELSE {sv}

\* a first join that asks for a name a registered student holds
HeldFirstJoin(e) ==
  /\ e.ev = "join_student"
  /\ ~HasStudent(students, e.conn)
  /\ \E i \in 1..Len(students) : students[i].name = trim(e.arg)

\* the state r of server.js is the state part_000 is in after the step:
\* poll, tally, history, timer, roster with the answered flags, poll_ended
AgreesAfter(r) ==
  /\ r.currentPoll = currentPoll'
  /\ r.pollResults = pollResults'
  /\ r.heap = heap'
  /\ r.pastPolls = pastPolls'
  /\ r.pollTimeout = pollTimeout'
  /\ r.timers = timers'
  /\ r.pollEnded = pollEnded'
  /\ r.students = ServerStudents(students')

\* C31: on every join_student, teacher_start_poll, submit_answer,
\* teacher_end_poll, timer and disconnect event that is no first join under a
\* name already held, server.js, run from the state in which it agrees with
\* part_000, ends in the state in which it agrees with part_000 again: same
\* active poll, tally, armed timer, answered flags per socket and history.
\* The two variants run side by side therefore agree after every step.
C31_SameEngine ==
  [][(last'.ev \in PairEvents /\ ~HeldFirstJoin(last')) =>
       \E r \in ServerSteps(ServerState, last') : AgreesAfter(r)]_vars

\* a student that has answered joins again while the poll of the second
\* round is active: the tally keeps the answer, the flag is cleared
C31_Witness ==
  /\ last.ev = "join_student"
  /\ currentPoll # Null
  /\ Len(pastPolls) >= 1
  /\ Len(students) = 2
  /\ TallySum(Tally) >= 1
  /\ AnsweredCount(students) = 0
====
